---- MODULE Spec2Model ----
(***************************************************************************)
(* A model of craneodev/dbbsoft-test.                                      *)
(*                                                                         *)
(*  - lib/dbb_soft_test-stack.ts: the DbbSoftTestStack constructor, one    *)
(*    action per statement.  It builds the descriptor (the template) of    *)
(*    the stack from static configuration and app/package.json.            *)
(*  - the apply of that descriptor (section 4.2 of the specification): the *)
(*    repository holds no applier of its own, the stack is handed to the   *)
(*    provisioning service by bin/ (new DbbSoftTestStack(app, ...)).  The  *)
(*    apply actions follow the specification; the dependency edges, the    *)
(*    logical ids and the properties they work on are the constructor's.   *)
(*  - app/server.js: the health server, one action per handler.            *)
(***************************************************************************)
EXTENDS Naturals, Sequences, FiniteSets, TLC

VARIABLES
    manifest,      \* app/package.json as it is on disk
    registryHost,  \* <account>.dkr.ecr.<region>.amazonaws.com of the env
    pc,            \* the statement of the constructor / phase of the run
    runs,          \* number of runs (cdk deploy) started so far
    constructs,    \* ids of the constructs made by this run's constructor
    appVersion,    \* const appVersion of the constructor
    template,      \* the descriptor: logical id -> [props, refs, dependsOn]
    deployed,      \* provisioning service: logical id -> applied props
    pending,       \* apply: resources still to submit in this apply
    submitted,     \* apply: logical id -> submissions made in this apply
    createCalls,   \* apply: creation calls made in this apply
    failure,       \* apply: the failure reported to the caller
    records,       \* application versions existing in the service
    everRecords,   \* every application version ever created (history)
    prevApplied,   \* manifest of the directly preceding successful apply
    runManifest,   \* manifest as read by this run's constructor
    VERSION,       \* server.js: const VERSION
    serverPc,      \* server.js: "boot", "crashed" or "listening"
    responses      \* server.js: the responses sent so far, in order

stackVars == <<manifest, registryHost, pc, runs, constructs, appVersion,
               template, deployed, pending, submitted, createCalls, failure,
               records, everRecords, prevApplied, runManifest>>
serverVars == <<VERSION, serverPc, responses>>
vars == <<stackVars, serverVars>>

-----------------------------------------------------------------------------
(* Bounds *)

MaxRuns == 2
MaxRequests == 3

-----------------------------------------------------------------------------
(* JavaScript values and template literals *)

JsUndefined == [type |-> "undefined"]
JsString(s) == [type |-> "string", val |-> s]

\* `${v}` : a template literal renders undefined as the text "undefined".
TemplateStr(v) == IF v.type = "undefined" THEN "undefined" ELSE v.val

None == [type |-> "none"]

-----------------------------------------------------------------------------
(* The version manifest, app/package.json *)

SemVers == {"1.2.3", "2.0.0"}
VersionValues == {JsUndefined, JsString(""), JsString("latest")}
                     \cup {JsString(s) : s \in SemVers}

\* kind "ok": the file parses as a JSON object whose version field is
\* `version` (JsUndefined when the field is absent).
Manifests ==
    {[kind |-> k, version |-> JsUndefined] :
        k \in {"missing", "unreadable", "malformed"}}
    \cup {[kind |-> "ok", version |-> v] : v \in VersionValues}

RegistryHosts == {"111111111111.dkr.ecr.us-east-1.amazonaws.com",
                  "222222222222.dkr.ecr.eu-west-1.amazonaws.com"}

\* JSON.parse(fs.readFileSync(packageJsonPath, 'utf8')).version swallowing
\* every error of the read and of the parse
ReadVersionSwallowing(m) == [threw |-> FALSE, version |-> m.version]

\* JSON.parse(fs.readFileSync(packageJsonPath, 'utf8')).version :
\* readFileSync throws on a missing or unreadable file, JSON.parse throws on
\* malformed JSON, and a field that is absent reads as undefined.
ReadVersion(m) ==
    IF m.kind = "ok"
    THEN [threw |-> FALSE, version |-> m.version]
    ELSE [threw |-> TRUE, version |-> JsUndefined]

-----------------------------------------------------------------------------
(* The descriptor *)

Resources == {"WebSg", "MyWebAppRepo", "DeployDockerImage", "EBInstanceRole",
              "EBInstanceProfile", "MyEBApp", "MyAppVersion", "MyEBEnv"}

Put(f, k, v) == [x \in DOMAIN f \cup {k} |-> IF x = k THEN v ELSE f[x]]

EmptyMap == [x \in {} |-> None]

Resource(props, refs, dependsOn) ==
    [props |-> props, refs |-> refs, dependsOn |-> dependsOn]

\* Fingerprint of the asset directory app/, which holds package.json: it
\* changes exactly when the contents do.
AssetHash(m) == <<"sha256", m.kind, TemplateStr(m.version), m.version.type>>

\* repo.repositoryUri
RepositoryUri(host, repositoryName) == host \o "/" \o repositoryName

RepoPropsVersioned(v) ==
    [repositoryName |-> "dbbsoftt-repo-" \o TemplateStr(v),
     removalPolicy |-> "DESTROY", emptyOnDelete |-> TRUE]

RepoProps(v) ==
    [repositoryName |-> "dbbsoftt-repo",
     removalPolicy |-> "DESTROY", emptyOnDelete |-> TRUE]

\* server.js: const PORT, the port the container listens on
PORT == 8080

\* ec2.Port.tcp(80)
IngressPort == 80

IngressRuleOnContainerPort ==
    [peer |-> "0.0.0.0/0", protocol |-> "tcp", port |-> PORT,
     direction |-> "ingress", description |-> "Allow HTTP traffic"]

\* mySecurityGroup.addIngressRule(ec2.Peer.anyIpv4(), ec2.Port.tcp(80), ...)
IngressRule ==
    [peer |-> "0.0.0.0/0", protocol |-> "tcp", port |-> IngressPort,
     direction |-> "ingress", description |-> "Allow HTTP traffic"]

ImageDestLatest(host, v) ==
    RepositoryUri(host, RepoProps(v).repositoryName) \o ":" \o "latest"

\* dest of DeployDockerImage: `${repo.repositoryUri}:${appVersion}`
ImageDest(host, v) ==
    RepositoryUri(host, RepoProps(v).repositoryName) \o ":" \o TemplateStr(v)

ImageUriOptionLatest(host, v) ==
    RepositoryUri(host, RepoProps(v).repositoryName) \o ":" \o "latest"

\* value of the AWS_EB_DOCKER_IMAGE_URI option of MyEBEnv:
\* `${repo.repositoryUri}:${appVersion}`
ImageUriOption(host, v) ==
    RepositoryUri(host, RepoProps(v).repositoryName) \o ":" \o TemplateStr(v)

AppVersionDependenciesDropped == {}

\* appVersionProps.addDependency(app)
AppVersionDependencies == {"MyEBApp"}

\* the resources whose tokens the properties of MyEBEnv hold:
\* appVersionProps.ref, ebInstanceProfile.ref,
\* mySecurityGroup.securityGroupId, repo.repositoryUri
EnvRefs == {"MyAppVersion", "EBInstanceProfile", "WebSg", "MyWebAppRepo"}

\* the class each construct of the template is made from
Kind(r) ==
    CASE r = "WebSg" -> "ec2.SecurityGroup"
      [] r = "MyWebAppRepo" -> "ecr.Repository"
      [] r = "DeployDockerImage" -> "ecrdeploy.ECRDeployment"
      [] r = "EBInstanceRole" -> "iam.Role"
      [] r = "EBInstanceProfile" -> "iam.CfnInstanceProfile"
      [] r = "MyEBApp" -> "elasticbeanstalk.CfnApplication"
      [] r = "MyAppVersion" -> "elasticbeanstalk.CfnApplicationVersion"
      [] r = "MyEBEnv" -> "elasticbeanstalk.CfnEnvironment"

-----------------------------------------------------------------------------
(* DbbSoftTestStack.constructor, statement by statement *)

Step(from, to) == pc = from /\ pc' = to

BuildUnchanged == UNCHANGED <<manifest, registryHost, runs, deployed, pending,
                              submitted, createCalls, failure, records,
                              everRecords, prevApplied, serverVars>>

\* bin/: new DbbSoftTestStack(app, 'DbbSoftTestStack', ...) ; super(...)
Start ==
    /\ pc \in {"idle", "threw", "deployed", "deployfailed"}
    /\ runs < MaxRuns
    /\ runs' = runs + 1
    /\ pc' = "DefaultVPC"
    /\ constructs' = {}
    /\ appVersion' = JsUndefined
    /\ template' = EmptyMap
    /\ pending' = {}
    /\ submitted' = [r \in Resources |-> 0]
    /\ createCalls' = 0
    /\ failure' = None
    /\ runManifest' = None
    /\ prevApplied' = CASE pc = "deployed" -> runManifest
                        [] pc = "deployfailed" -> None
                        [] OTHER -> prevApplied
    /\ UNCHANGED <<manifest, registryHost, deployed, records, everRecords,
                   serverVars>>

LookupVpc ==
    /\ Step("DefaultVPC", "WebSg")
    /\ constructs' = constructs \cup {"DefaultVPC"}
    /\ UNCHANGED <<appVersion, template, runManifest>>
    /\ BuildUnchanged

NewSecurityGroup ==
    /\ Step("WebSg", "addIngressRule")
    /\ constructs' = constructs \cup {"WebSg"}
    /\ template' = Put(template, "WebSg",
           Resource([description |-> "Allow HTTP access",
                     allowAllOutbound |-> TRUE, ingress |-> {}],
                    {}, {}))
    /\ UNCHANGED <<appVersion, runManifest>>
    /\ BuildUnchanged

AddIngressRule ==
    /\ Step("addIngressRule", "packageJson")
    /\ template' = [template EXCEPT !["WebSg"].props.ingress =
                        @ \cup {IngressRule}]
    /\ UNCHANGED <<constructs, appVersion, runManifest>>
    /\ BuildUnchanged

ReadPackageJson ==
    /\ pc = "packageJson"
    /\ LET r == ReadVersion(manifest) IN
        /\ pc' = IF r.threw THEN "threw" ELSE "MyWebAppRepo"
        /\ appVersion' = r.version
    /\ runManifest' = manifest
    /\ UNCHANGED <<constructs, template>>
    /\ BuildUnchanged

NewRepository ==
    /\ Step("MyWebAppRepo", "MyWebAppImage")
    /\ constructs' = constructs \cup {"MyWebAppRepo"}
    /\ template' = Put(template, "MyWebAppRepo",
                       Resource(RepoProps(appVersion), {}, {}))
    /\ UNCHANGED <<appVersion, runManifest>>
    /\ BuildUnchanged

NewDockerImageAsset ==
    /\ Step("MyWebAppImage", "DeployDockerImage")
    /\ constructs' = constructs \cup {"MyWebAppImage"}
    /\ UNCHANGED <<appVersion, template, runManifest>>
    /\ BuildUnchanged

NewECRDeployment ==
    /\ Step("DeployDockerImage", "AppSourceZip")
    /\ constructs' = constructs \cup {"DeployDockerImage"}
    /\ template' = Put(template, "DeployDockerImage",
           Resource([src |-> AssetHash(runManifest),
                     dest |-> ImageDest(registryHost, appVersion)],
                    {"MyWebAppRepo"}, {}))
    /\ UNCHANGED <<appVersion, runManifest>>
    /\ BuildUnchanged

NewSourceZip ==
    /\ Step("AppSourceZip", "EBInstanceRole")
    /\ constructs' = constructs \cup {"AppSourceZip"}
    /\ UNCHANGED <<appVersion, template, runManifest>>
    /\ BuildUnchanged

NewInstanceRole ==
    /\ Step("EBInstanceRole", "EBInstanceProfile")
    /\ constructs' = constructs \cup {"EBInstanceRole"}
    /\ template' = Put(template, "EBInstanceRole",
           Resource([assumedBy |-> "ec2.amazonaws.com",
                     managedPolicies |->
                         {"AWSElasticBeanstalkWebTier",
                          "AmazonEC2ContainerRegistryReadOnly"}],
                    {}, {}))
    /\ UNCHANGED <<appVersion, runManifest>>
    /\ BuildUnchanged

NewInstanceProfile ==
    /\ Step("EBInstanceProfile", "MyEBApp")
    /\ constructs' = constructs \cup {"EBInstanceProfile"}
    /\ template' = Put(template, "EBInstanceProfile",
           Resource([roles |-> <<[ref |-> "EBInstanceRole"]>>],
                    {"EBInstanceRole"}, {}))
    /\ UNCHANGED <<appVersion, runManifest>>
    /\ BuildUnchanged

NewApplication ==
    /\ Step("MyEBApp", "MyAppVersion")
    /\ constructs' = constructs \cup {"MyEBApp"}
    /\ template' = Put(template, "MyEBApp",
           Resource([applicationName |-> "DbbSoft"], {}, {}))
    /\ UNCHANGED <<appVersion, runManifest>>
    /\ BuildUnchanged

NewApplicationVersion ==
    /\ Step("MyAppVersion", "MyEBEnv")
    /\ constructs' = constructs \cup {"MyAppVersion"}
    /\ template' = Put(template, "MyAppVersion",
           Resource([applicationName |->
                         template["MyEBApp"].props.applicationName,
                     sourceBundle |-> AssetHash(runManifest),
                     description |-> "Version " \o TemplateStr(appVersion)],
                    {}, AppVersionDependencies))
    /\ UNCHANGED <<appVersion, runManifest>>
    /\ BuildUnchanged

NewEnvironment ==
    /\ Step("MyEBEnv", "synthesized")
    /\ constructs' = constructs \cup {"MyEBEnv"}
    /\ template' = Put(template, "MyEBEnv",
           Resource([environmentName |-> "DbbSoftEnv",
                     applicationName |->
                         template["MyEBApp"].props.applicationName,
                     solutionStackName |->
                         "64bit Amazon Linux 2023 v4.8.0 running Docker",
                     versionLabel |-> [ref |-> "MyAppVersion"],
                     IamInstanceProfile |-> [ref |-> "EBInstanceProfile"],
                     InstanceType |-> "t3.micro",
                     SecurityGroups |-> [ref |-> "WebSg"],
                     EnvironmentType |-> "SingleInstance",
                     AWS_EB_DOCKER_IMAGE_URI |->
                         ImageUriOption(registryHost, appVersion)],
                    EnvRefs, {}))
    /\ UNCHANGED <<appVersion, runManifest>>
    /\ BuildUnchanged

\* the version manifest changes on disk between two runs (a version bump)
EditManifest ==
    /\ pc \in {"threw", "deployed", "deployfailed"}
    /\ runs < MaxRuns
    /\ \E m \in Manifests : m # manifest /\ manifest' = m
    /\ UNCHANGED <<registryHost, pc, runs, constructs, appVersion, template,
                   deployed, pending, submitted, createCalls, failure,
                   records, everRecords, prevApplied, runManifest,
                   serverVars>>

-----------------------------------------------------------------------------
(* The apply of the descriptor (specification, section 4.2) *)

DependsOn(r) == template[r].refs \cup template[r].dependsOn

\* the resources the apply has to touch: absent from the service, or
\* present with other properties than the descriptor's
Changed == {r \in DOMAIN template :
               r \notin DOMAIN deployed \/ deployed[r] # template[r].props}

ApplyUnchanged == UNCHANGED <<manifest, registryHost, runs, constructs,
                              appVersion, template, prevApplied, runManifest,
                              serverVars>>

ApplyStart ==
    /\ Step("synthesized", "deploying")
    /\ pending' = Changed
    /\ UNCHANGED <<deployed, submitted, createCalls, failure, records,
                   everRecords>>
    /\ ApplyUnchanged

\* A resource is submitted once everything it depends on is in place.
Ready(r) ==
    /\ r \in pending
    /\ DependsOn(r) \cap pending = {}
    /\ DependsOn(r) \subseteq DOMAIN deployed

\* No policy of the stack retains a replaced resource: the constructor sets
\* a removal policy on the repository alone, and that one is DESTROY.
RetainOnReplace(r) == FALSE

SubmitOk(r) ==
    /\ pc = "deploying"
    /\ Ready(r)
    /\ submitted' = [submitted EXCEPT ![r] = @ + 1]
    /\ createCalls' = IF r \in DOMAIN deployed THEN createCalls
                      ELSE createCalls + 1
    /\ deployed' = Put(deployed, r, template[r].props)
    /\ pending' = pending \ {r}
    /\ IF r = "MyAppVersion"
       THEN /\ records' =
                 (IF r \in DOMAIN deployed /\ ~RetainOnReplace(r)
                  THEN records \ {deployed[r]} ELSE records)
                 \cup {template[r].props}
            /\ everRecords' = everRecords \cup {template[r].props}
       ELSE UNCHANGED <<records, everRecords>>
    /\ UNCHANGED <<pc, failure>>
    /\ ApplyUnchanged

SubmitFailAndContinue(r) ==
    /\ pc = "deploying"
    /\ Ready(r)
    /\ submitted' = [submitted EXCEPT ![r] = @ + 1]
    /\ failure' = [type |-> "SubmissionError", resource |-> r]
    /\ UNCHANGED <<pc, deployed, pending, createCalls, records, everRecords>>
    /\ ApplyUnchanged

\* The service rejects the submission: the apply stops and reports it.
SubmitFail(r) ==
    /\ pc = "deploying"
    /\ Ready(r)
    /\ submitted' = [submitted EXCEPT ![r] = @ + 1]
    /\ failure' = [type |-> "SubmissionError", resource |-> r]
    /\ pc' = "deployfailed"
    /\ UNCHANGED <<deployed, pending, createCalls, records, everRecords>>
    /\ ApplyUnchanged

ApplyFinish ==
    /\ pc = "deploying"
    /\ pending = {}
    /\ pc' = "deployed"
    /\ UNCHANGED <<deployed, pending, submitted, createCalls, failure,
                   records, everRecords>>
    /\ ApplyUnchanged

-----------------------------------------------------------------------------
(* app/server.js *)

\* res.json(obj): JSON.stringify leaves out a property that is undefined
JsonStringify(status, version) ==
    IF version.type = "undefined"
    THEN "{\"status\":\"" \o status \o "\"}"
    ELSE "{\"status\":\"" \o status \o "\",\"version\":\""
             \o version.val \o "\"}"

HealthBodyNoVersion(version) == JsonStringify("healthy", JsUndefined)

\* the body of the answer to GET /health
HealthBody(version) == JsonStringify("healthy", version)

ServerUnchanged == UNCHANGED stackVars

\* const packageJson = require('./package.json'); const VERSION = ...;
\* app.listen(PORT, ...)
ServerBoot ==
    /\ serverPc = "boot"
    /\ LET r == ReadVersion(manifest) IN
        /\ serverPc' = IF r.threw THEN "crashed" ELSE "listening"
        /\ VERSION' = r.version
    /\ UNCHANGED responses
    /\ ServerUnchanged

\* app.get('/health', ...)
GetHealth ==
    /\ serverPc = "listening"
    /\ Len(responses) < MaxRequests
    /\ responses' = Append(responses,
           [path |-> "/health", status |-> 200,
            contentType |-> "application/json",
            body |-> HealthBody(VERSION)])
    /\ UNCHANGED <<VERSION, serverPc>>
    /\ ServerUnchanged

\* app.get('/', ...)
GetRoot ==
    /\ serverPc = "listening"
    /\ Len(responses) < MaxRequests
    /\ responses' = Append(responses,
           [path |-> "/", status |-> 200,
            contentType |-> "text/html",
            body |-> "Craneodev test app for DBB Software. The app is running. Version: "
                         \o TemplateStr(VERSION)])
    /\ UNCHANGED <<VERSION, serverPc>>
    /\ ServerUnchanged

-----------------------------------------------------------------------------
(* Specifications *)

StackInit ==
    /\ manifest \in Manifests
    /\ registryHost \in RegistryHosts
    /\ pc = "idle"
    /\ runs = 0
    /\ constructs = {}
    /\ appVersion = JsUndefined
    /\ template = EmptyMap
    /\ deployed = EmptyMap
    /\ pending = {}
    /\ submitted = [r \in Resources |-> 0]
    /\ createCalls = 0
    /\ failure = None
    /\ records = {}
    /\ everRecords = {}
    /\ prevApplied = None
    /\ runManifest = None

ServerInit ==
    /\ VERSION = JsUndefined
    /\ serverPc = "boot"
    /\ responses = << >>

Init == StackInit /\ ServerInit

Build ==
    \/ Start
    \/ LookupVpc
    \/ NewSecurityGroup
    \/ AddIngressRule
    \/ ReadPackageJson
    \/ NewRepository
    \/ NewDockerImageAsset
    \/ NewECRDeployment
    \/ NewSourceZip
    \/ NewInstanceRole
    \/ NewInstanceProfile
    \/ NewApplication
    \/ NewApplicationVersion
    \/ NewEnvironment

Apply ==
    \/ ApplyStart
    \/ \E r \in Resources : SubmitOk(r)
    \/ \E r \in Resources : SubmitFail(r)
    \/ ApplyFinish

Next == Build \/ Apply \/ EditManifest

\* the build and the apply of the stack
Spec == Init /\ [][Next]_vars

ServerNext == ServerBoot \/ GetHealth \/ GetRoot

\* the health server
ServerSpec == Init /\ [][ServerNext]_vars

-----------------------------------------------------------------------------
(* Properties *)

\* the descriptor is complete: the constructor has returned
Built == pc \in {"synthesized", "deploying", "deployed", "deployfailed"}

\* the constructor is past the read of the version manifest
PastRead == runManifest # None

Created(r) == r \notin DOMAIN deployed /\ r \in DOMAIN deployed'

\* C1: in every apply, whatever the order the service picks, the security
\* group, the role and its instance profile and the repository are created
\* strictly before the environment; the application is created before the
\* application version, which is created before the environment.
C1_CreationOrder ==
    [][/\ Created("MyEBEnv") =>
            {"WebSg", "EBInstanceRole", "EBInstanceProfile", "MyWebAppRepo",
             "MyAppVersion", "MyEBApp"} \subseteq DOMAIN deployed
       /\ Created("MyAppVersion") => "MyEBApp" \in DOMAIN deployed
       /\ Created("EBInstanceProfile") =>
            "EBInstanceRole" \in DOMAIN deployed]_vars

C1_Witness ==
    /\ pc = "deployed"
    /\ createCalls = Cardinality(Resources)
    /\ "MyEBEnv" \in DOMAIN deployed

\* the resources whose properties hold the VersionTag
VersionCarriers == {"DeployDockerImage", "MyAppVersion", "MyEBEnv"}

Touched == {r \in Resources : submitted[r] > 0}

InApply == pc \in {"deploying", "deployed", "deployfailed"}

SameAgain == InApply /\ prevApplied # None /\ prevApplied = runManifest

VersionBump ==
    /\ InApply
    /\ prevApplied # None
    /\ prevApplied # runManifest

C3_AbortOnFirstFailure ==
    /\ [][failure # None /\ pc' # "DefaultVPC" =>
            /\ submitted' = submitted
            /\ deployed' = deployed
            /\ failure' = failure]_vars
    /\ [](failure # None => pc = "deployfailed")
    /\ [](\A r \in Resources : submitted[r] <= 1)

C3_Witness ==
    /\ pc = "deployfailed"
    /\ failure = [type |-> "SubmissionError", resource |-> "MyAppVersion"]
    /\ pending # {}
    /\ "MyEBApp" \in DOMAIN deployed

\* C4: when the manifest is missing, unreadable or malformed, the build
\* fails at the read: nothing has been submitted to the service and none of
\* the constructs after the read exists.
C4_BadManifestFailsFirst ==
    (PastRead /\ runManifest.kind # "ok") =>
        /\ pc = "threw"
        /\ constructs \subseteq {"DefaultVPC", "WebSg"}
        /\ DOMAIN template \subseteq {"WebSg"}
        /\ Touched = {}
        /\ createCalls = 0
        /\ pending = {}

C4_Witness ==
    /\ pc = "threw"
    /\ runManifest.kind = "malformed"
    /\ constructs = {"DefaultVPC", "WebSg"}

\* C5: the VersionTag of every built descriptor is a non-empty string.
C5_VersionTagNonEmpty ==
    Built => appVersion.type = "string" /\ appVersion.val # ""

\* the port the comments of the stack name as the public one
PublicPort == 80

Permits(rule, port) ==
    /\ rule.direction = "ingress"
    /\ rule.protocol = "tcp"
    /\ rule.port = port

\* C6 (as amended): every descriptor that reaches the apply has an inbound
\* rule for the public port 80, and exactly that rule.
C6_InboundRuleForPublicPort ==
    Built =>
        /\ \E rule \in template["WebSg"].props.ingress :
               Permits(rule, PublicPort) /\ rule.peer = "0.0.0.0/0"
        /\ Cardinality(template["WebSg"].props.ingress) = 1

C6_Witness ==
    /\ pc = "deployed"
    /\ \E rule \in deployed["WebSg"].ingress : Permits(rule, PublicPort)

\* C6 as stated: every descriptor that reaches the apply has an inbound rule
\* for the port the service listens on.
C6_InboundRuleForListenPort ==
    Built => \E rule \in template["WebSg"].props.ingress : Permits(rule, PORT)

ValidConfiguration ==
    /\ PastRead
    /\ runManifest.kind = "ok"
    /\ runManifest.version.type = "string"
    /\ runManifest.version.val \in SemVers

\* C7: a descriptor built from a valid configuration holds exactly one
\* environment, whose image reference is <repository uri>:<VersionTag> for
\* the version of the manifest, and the tag is not "latest".
C7_OneEnvironmentOnVersionTag ==
    (Built /\ ValidConfiguration) =>
        /\ {r \in DOMAIN template :
               Kind(r) = "elasticbeanstalk.CfnEnvironment"} = {"MyEBEnv"}
        /\ template["MyEBEnv"].props.AWS_EB_DOCKER_IMAGE_URI
               = registryHost \o "/dbbsoftt-repo:"
                     \o runManifest.version.val
        /\ template["MyEBEnv"].props.AWS_EB_DOCKER_IMAGE_URI
               # registryHost \o "/dbbsoftt-repo:latest"

C7_Witness ==
    /\ pc = "synthesized"
    /\ ValidConfiguration
    /\ runManifest.version.val = "1.2.3"

\* C8: the destination the image is pushed to and the image reference of
\* the environment are the same string, the uri of the repository
\* dbbsoftt-repo, ':' and the VersionTag as it stands in the manifest.
C8_PushAndPullSameReference ==
    Built =>
        /\ template["DeployDockerImage"].props.dest
               = template["MyEBEnv"].props.AWS_EB_DOCKER_IMAGE_URI
        /\ runManifest.version.type = "string" =>
               template["DeployDockerImage"].props.dest
                   = registryHost \o "/" \o
                     template["MyWebAppRepo"].props.repositoryName
                     \o ":" \o runManifest.version.val
        /\ template["MyWebAppRepo"].props.repositoryName = "dbbsoftt-repo"

C8_Witness ==
    /\ Built
    /\ \E host \in RegistryHosts :
           template["DeployDockerImage"].props.dest
               = host \o "/dbbsoftt-repo:1.2.3"

\* C9: every answer to GET /health, whatever was asked before, has status
\* 200 and the body {"status":"healthy","version":V} for the version V the
\* process started with, and no request changes the version.
C9_HealthAnswer ==
    /\ [](\A i \in 1..Len(responses) :
            responses[i].path = "/health" =>
                /\ responses[i].status = 200
                /\ responses[i].contentType = "application/json"
                /\ (manifest.version.type = "string" =>
                        responses[i].body =
                            "{\"status\":\"healthy\",\"version\":\""
                                \o manifest.version.val \o "\"}"))
    /\ [][serverPc = "listening" =>
            VERSION' = VERSION /\ serverPc' = serverPc]_vars

C9_Witness ==
    /\ serverPc = "listening"
    /\ Len(responses) = 3
    /\ responses[1].path = "/"
    /\ responses[2].path = "/health"
    /\ responses[3].path = "/health"
    /\ responses[3].status = 200
    /\ responses[3].body = "{\"status\":\"healthy\",\"version\":\"2.0.0\"}"

\* C10: after a successful apply of one VersionTag directly followed by a
\* successful apply of another, both built from valid configurations, every
\* application version created so far still exists.
C10_RecordsRetained ==
    (/\ pc = "deployed"
     /\ VersionBump
     /\ ValidConfiguration
     /\ prevApplied.version \in {JsString(s) : s \in SemVers})
        => everRecords \subseteq records

\* the apply step that creates the environment or moves it to another image
EnvSubmitted ==
    /\ "MyEBEnv" \in DOMAIN deployed'
    /\ ("MyEBEnv" \notin DOMAIN deployed
            \/ deployed'["MyEBEnv"] # deployed["MyEBEnv"])

\* C11: in every order of an apply, when the environment is created on (or
\* moved to) the image <repository uri>:<VersionTag>, the image deployment
\* DeployDockerImage has already pushed that very reference.
C11_PushBeforeEnvironment ==
    [][(ValidConfiguration /\ EnvSubmitted) =>
            /\ "DeployDockerImage" \in DOMAIN deployed
            /\ deployed["DeployDockerImage"].dest
                   = deployed'["MyEBEnv"].AWS_EB_DOCKER_IMAGE_URI]_vars

====
